---------------------------- MODULE Spec2Model ----------------------------
(***************************************************************************)
(* A model of log-microscope's line index, line extraction, binary         *)
(* transfer encoding, parallel search, shared file handle, query engine    *)
(* and commands (src-tauri/src/indexer.rs, src-tauri/src/query_engine.rs,  *)
(* src-tauri/src/commands.rs).                                             *)
(*                                                                         *)
(* Bytes are naturals 0..255 and a buffer is a sequence of bytes.  Rust    *)
(* indexes from 0 and TLA+ sequences from 1: Rust's data[i] is data[i+1]   *)
(* here, and Rust's data[a..b] is SubSeq(data, a+1, b).  A Rust String is  *)
(* the sequence of its Unicode code points.                                *)
(***************************************************************************)
EXTENDS Naturals, Sequences, FiniteSets

\* ------------------------------------------------------------------ bounds
\* Longest file content, in bytes.
MaxLen == 4
\* Largest rayon thread count tried by the index builder.
MaxCores == 2
\* Largest floor of the index builder's chunk size tried (the source's floor
\* is 64 MiB; the model draws the floor from 1..MaxIndexFloor so that a
\* buffer of a few bytes is split into several chunks).
MaxIndexFloor == 2
\* Largest start and count passed to get_lines and get_lines_binary.
MaxStart == 4
MaxCount == 4
\* Largest max_results passed to search.
MaxResults == 2
\* Largest chunk size of search tried, in lines (the source's is 10000 lines;
\* the model draws it from 1..MaxSearchChunk so that a file of a few lines is
\* split into several chunks).
MaxSearchChunk == 2
\* Longest text handed to detect_format on its own, in characters.
MaxDocLen == 5

\* --------------------------------------------------------------- constants
\* b'\n' and b'\r'
NL == 10
CR == 13
\* U+FFFD REPLACEMENT CHARACTER, what from_utf8_lossy puts for a bad byte
REPLACEMENT == 65533

\* The bytes file contents are drawn from: newline, carriage return, 'a',
\* and 0xFF, a byte that no valid UTF-8 text contains.
Alphabet == {NL, CR, 97, 255}

RECURSIVE SeqsUpTo(_, _)
SeqsUpTo(S, n) ==
    IF n = 0 THEN {<<>>}
    ELSE LET shorter == SeqsUpTo(S, n - 1)
         IN  shorter \cup {Append(s, b) : s \in {t \in shorter : Len(t) = n - 1}, b \in S}

\* Every non-empty content within the bounds.
Buffers == SeqsUpTo(Alphabet, MaxLen) \ {<<>>}

Min(a, b) == IF a <= b THEN a ELSE b
Max(a, b) == IF a >= b THEN a ELSE b

\* ------------------------------------------------------- Line Index Builder
\* chunk_size of build_index; floor stands for the source's 64 * 1024 * 1024.
IndexChunkSize(data_len, cores, floor) == Max(floor, data_len \div cores)

\* (0..data_len).step_by(chunk_size) mapped to (start, end): chunk k of 1..n
\* covers Rust positions start..end.
IndexChunks(data_len, cs) ==
    LET n == (data_len + cs - 1) \div cs
    IN  [k \in 1..n |-> [start |-> (k - 1) * cs, end |-> Min((k - 1) * cs + cs, data_len)]]

\* absolute_pos: the position after the newline found at pos within the chunk
AbsolutePos(start, pos) == start + pos + 1

\* the guard under which a worker records absolute_pos
KeepOffsetInclusive(absolute_pos, data_len) == absolute_pos <= data_len
KeepOffset(absolute_pos, data_len) == absolute_pos < data_len

\* One worker's closure: the offsets of chunk (start, end), in scan order.
ScanChunk(d, start, end) ==
    LET positions == [i \in 1..(end - start) |-> i - 1]
        Hit(pos) == /\ d[start + pos + 1] = NL
                    /\ KeepOffset(AbsolutePos(start, pos), Len(d))
        hits == SelectSeq(positions, Hit)
    IN  [j \in 1..Len(hits) |-> AbsolutePos(start, hits[j])]

RECURSIVE Insert(_, _)
Insert(sorted, x) ==
    IF sorted = <<>> THEN <<x>>
    ELSE IF x <= Head(sorted) THEN <<x>> \o sorted
    ELSE <<Head(sorted)>> \o Insert(Tail(sorted), x)

\* sort_unstable on integers
RECURSIVE Sort(_)
Sort(s) == IF s = <<>> THEN <<>> ELSE Insert(Sort(Tail(s)), Head(s))

\* Vec::dedup: drops an element equal to the one before it
RECURSIVE Dedup(_)
Dedup(s) ==
    IF Len(s) <= 1 THEN s
    ELSE IF s[1] = s[2] THEN Dedup(Tail(s))
    ELSE <<s[1]>> \o Dedup(Tail(s))

RECURSIVE Concat(_)
Concat(ss) == IF ss = <<>> THEN <<>> ELSE Head(ss) \o Concat(Tail(ss))

\* The driver's fan-in: push 0, extend with every chunk's offsets in the
\* order collect() hands them over (chunk order), sort, dedup.
ReconcileIndex(results) == Dedup(Sort(<<0>> \o Concat(results)))

\* build_index as a function of the buffer and the chunk size.
BuildIndexWith(d, cs) ==
    IF Len(d) = 0 THEN <<0>>
    ELSE LET chunks == IndexChunks(Len(d), cs)
         IN  ReconcileIndex([k \in 1..Len(chunks) |-> ScanChunk(d, chunks[k].start, chunks[k].end)])

VARIABLES
    num_cores,      \* rayon::current_num_threads()
    index_floor,    \* the floor of build_index's chunk size
    idx_data,       \* build_index: the buffer being indexed
    idx_chunks,     \* build_index: chunks
    idx_results,    \* build_index: per chunk, the worker's ChunkResult once it finished
    idx_finished,   \* build_index: the chunks in the order their workers finished
    idx_pc,         \* build_index: "scan" while workers run, "done" once it returned
    global_index    \* build_index: the returned index

idx_vars == <<idx_data, idx_chunks, idx_results, idx_finished, idx_pc, global_index>>
env_vars == <<num_cores, index_floor>>

VARIABLES
    fs,             \* the file system: path -> [exists, bytes]
    inner,          \* SharedLogFile.inner: None or Some(LogFile)
    readers,        \* the clients holding shared access to inner
    pc,             \* per client: where its command stands
    req,            \* per client: the command invoked and its arguments
    ret,            \* per client: what the command returned
    seen,           \* per client: the view with_file handed it (history)
    work,           \* per client: get_lines' actual_count and lines so far
    built,          \* per client: the LogFile that open built, before the swap
    search_chunk,   \* search's chunk_size, in lines
    searcher,       \* the client whose search is running, or "none"
    regex,          \* the running search's compiled pattern
    results,        \* the running search's shared accumulator
    workers         \* the running search's chunk workers: [pc, next, local]

VARIABLES
    ctx,              \* QueryEngine.ctx: the session's scalar functions and tables
    registered_table, \* QueryEngine.registered_table: None or Some(name)
    finfo             \* per client: open_file's (file_size, line_count)

handle_vars == <<fs, inner, readers, pc, req, ret, seen, work, built>>
search_vars == <<search_chunk, searcher, regex, results, workers>>
query_vars == <<ctx, registered_table, finfo>>
vars == <<env_vars, idx_vars, handle_vars, search_vars, query_vars>>


NotDone == [done |-> FALSE, offsets |-> <<>>]

\* build_index is entered with a non-empty buffer; chunk boundaries are laid out.
IndexInit ==
    /\ num_cores \in 1..MaxCores
    /\ index_floor \in 1..MaxIndexFloor
    /\ idx_data \in Buffers
    /\ idx_chunks = IndexChunks(Len(idx_data), IndexChunkSize(Len(idx_data), num_cores, index_floor))
    /\ idx_results = [k \in 1..Len(idx_chunks) |-> NotDone]
    /\ idx_finished = <<>>
    /\ idx_pc = "scan"
    /\ global_index = <<>>

\* The worker of chunk k runs its closure to the end.
IndexWorker(k) ==
    /\ idx_pc = "scan"
    /\ ~idx_results[k].done
    /\ idx_results' = [idx_results EXCEPT ![k] =
           [done |-> TRUE, offsets |-> ScanChunk(idx_data, idx_chunks[k].start, idx_chunks[k].end)]]
    /\ idx_finished' = Append(idx_finished, k)
    /\ UNCHANGED <<idx_data, idx_chunks, idx_pc, global_index, env_vars, handle_vars, search_vars, query_vars>>

\* collect() has every ChunkResult: the driver reconciles and returns.
IndexReconcile ==
    /\ idx_pc = "scan"
    /\ \A k \in 1..Len(idx_chunks) : idx_results[k].done
    /\ global_index' = ReconcileIndex([k \in 1..Len(idx_chunks) |-> idx_results[k].offsets])
    /\ idx_pc' = "done"
    /\ UNCHANGED <<idx_data, idx_chunks, idx_results, idx_finished, env_vars, handle_vars, search_vars, query_vars>>


\* ---------------------------------------------------------- text and bytes
\* String::from_utf8_lossy over the model's alphabet: an ASCII byte is its own
\* code point, any other byte (never part of valid UTF-8 here) becomes U+FFFD.
FromUtf8Lossy(bytes) == [i \in 1..Len(bytes) |-> IF bytes[i] < 128 THEN bytes[i] ELSE REPLACEMENT]

\* std::str::from_utf8: fails on a byte that is not valid UTF-8.
IsUtf8(bytes) == \A i \in 1..Len(bytes) : bytes[i] < 128

\* One code point's UTF-8 encoding (U+FFFD is EF BF BD).
EncodeChar(cp) == IF cp < 128 THEN <<cp>> ELSE <<239, 191, 189>>

\* String::as_bytes
RECURSIVE AsBytes(_)
AsBytes(s) == IF s = <<>> THEN <<>> ELSE EncodeChar(Head(s)) \o AsBytes(Tail(s))

\* String::len, in bytes
StrLenChars(s) == Len(s)
StrLen(s) == Len(AsBytes(s))

\* (n as u32).to_le_bytes()
U32Le(n) == <<n % 256, (n \div 256) % 256, (n \div 65536) % 256, (n \div 16777216) % 256>>

\* ---------------------------------------------------------- Indexed Log View
Paths == {"a.log", "b.log", "empty.log", "missing.log"}

None == [some |-> FALSE]
Some(f) == [some |-> TRUE, file |-> f]

\* LogFile::open on the file system fsys: a missing path is an I/O error, a
\* zero-byte file is EmptyFile, anything else is mapped and indexed.
LogFileOpenNoEmptyCheck(fsys, path, cs) ==
    IF ~fsys[path].exists \/ Len(fsys[path].bytes) = 0 THEN [ok |-> FALSE, err |-> "FileOpen"]
    ELSE [ok |-> TRUE,
          file |-> [mmap |-> fsys[path].bytes,
                    line_offsets |-> BuildIndexWith(fsys[path].bytes, cs),
                    file_size |-> Len(fsys[path].bytes),
                    path |-> path]]
LogFileOpen(fsys, path, cs) ==
    IF ~fsys[path].exists THEN [ok |-> FALSE, err |-> "FileOpen"]
    ELSE IF Len(fsys[path].bytes) = 0 THEN [ok |-> FALSE, err |-> "EmptyFile"]
    ELSE [ok |-> TRUE,
          file |-> [mmap |-> fsys[path].bytes,
                    line_offsets |-> BuildIndexWith(fsys[path].bytes, cs),
                    file_size |-> Len(fsys[path].bytes),
                    path |-> path]]

line_count(f) == Len(f.line_offsets)

\* get_lines: actual_count
ActualCountUnclamped(count, remaining) == count
ActualCount(count, remaining) == Min(count, remaining)

\* get_lines: line_end of line line_idx, before the \r handling
LineEnd(f, line_idx) ==
    IF line_idx + 1 < Len(f.line_offsets) THEN f.line_offsets[line_idx + 2] - 1 ELSE Len(f.mmap)

\* get_lines: the body of the loop, the text pushed for line line_idx
LineAt(f, line_idx) ==
    LET line_start == f.line_offsets[line_idx + 1]
        line_end   == LineEnd(f, line_idx)
        actual_end ==
            IF line_end > line_start /\ line_end <= Len(f.mmap)
            THEN LET end == Min(line_end, Len(f.mmap))
                 IN  IF end > 0 /\ f.mmap[end] = CR THEN end - 1 ELSE end
            ELSE line_start
    IN  IF line_start <= actual_end /\ actual_end <= Len(f.mmap)
        THEN FromUtf8Lossy(SubSeq(f.mmap, line_start + 1, actual_end))
        ELSE <<>>

\* get_lines: Ok(lines), or a panic when line_offsets is indexed out of bounds
get_lines(f, start, count) ==
    LET total_lines == line_count(f)
    IN  IF start >= total_lines THEN [kind |-> "ok", lines |-> <<>>]
        ELSE LET actual_count == ActualCount(count, total_lines - start)
             IN  IF start + actual_count > Len(f.line_offsets)
                 THEN [kind |-> "panic", lines |-> <<>>]
                 ELSE [kind |-> "ok", lines |-> [i \in 1..actual_count |-> LineAt(f, start + i - 1)]]

\* get_lines_binary: [num_lines: u32][len: u32]...[data]
get_lines_binary(f, start, count) ==
    LET r == get_lines(f, start, count)
        lines == r.lines
    IN  IF r.kind # "ok" THEN [kind |-> r.kind, bytes |-> <<>>]
        ELSE [kind |-> "ok",
              bytes |-> U32Le(Len(lines))
                        \o Concat([i \in 1..Len(lines) |-> U32Le(StrLen(lines[i]))])
                        \o Concat([i \in 1..Len(lines) |-> AsBytes(lines[i])])]

\* ------------------------------------------------------------------ regex
\* A pattern is the sequence of its characters.  The model's patterns are
\* literals over the alphabet, optionally followed by '$' (36), and patterns
\* holding '(' (40), an unclosed group, which Regex::new rejects.
Patterns == {<<97>>, <<NL>>, <<97, 36>>, <<40>>}

\* regex::Regex::new(pattern)
RegexNew(p) ==
    IF \E i \in 1..Len(p) : p[i] = 40 THEN [ok |-> FALSE]
    ELSE IF Len(p) > 0 /\ p[Len(p)] = 36
         THEN [ok |-> TRUE, lit |-> SubSeq(p, 1, Len(p) - 1), at_end |-> TRUE]
         ELSE [ok |-> TRUE, lit |-> p, at_end |-> FALSE]

\* regex.is_match(text): an unanchored search for the literal; '$' (no
\* multi-line flag) matches at the end of the haystack only.
IsMatch(re, text) ==
    LET n == Len(re.lit)
    IN  IF re.at_end
        THEN Len(text) >= n /\ SubSeq(text, Len(text) - n + 1, Len(text)) = re.lit
        ELSE \E i \in 0..Len(text) : i + n <= Len(text) /\ SubSeq(text, i + 1, i + n) = re.lit

\* search: line_end of line line_idx, the next line's offset or the buffer's end
SearchLineEnd(f, line_idx) ==
    IF line_idx + 1 < Len(f.line_offsets) THEN f.line_offsets[line_idx + 2] ELSE Len(f.mmap)

\* search: the test of one line, on the bytes up to the next line's offset
\* (terminator included), strictly decoded
SearchLineMatches(f, re, line_num) ==
    LET line_start == f.line_offsets[line_num + 1]
        line_end   == SearchLineEnd(f, line_num)
    IN  /\ line_start < line_end
        /\ line_end <= Len(f.mmap)
        /\ IsUtf8(SubSeq(f.mmap, line_start + 1, line_end))
        /\ IsMatch(re, SubSeq(f.mmap, line_start + 1, line_end))

\* search: the chunk starts, (0..total_lines).step_by(chunk_size)
SearchChunks(total_lines, cs) ==
    LET n == (total_lines + cs - 1) \div cs
    IN  [k \in 1..n |-> [start |-> (k - 1) * cs, end |-> Min((k - 1) * cs + cs, total_lines)]]

\* search: the early-exit test on the shared result count
CapReachedEarly(len, max_results) == len + 1 >= max_results
CapReached(len, max_results) == len >= max_results

\* Vec::truncate
TruncateNot(s, n) == s
Truncate(s, n) == SubSeq(s, 1, Min(n, Len(s)))

\* search: what is returned once every worker is done
FinalResults(merged, max_results) == Truncate(Sort(merged), max_results)

\* ---------------------------------------------- Shared Log Handle, commands
Clients == {"c1", "c2", "c3"}

Pending == [kind |-> "pending"]
NoWork == [n |-> 0, lines |-> <<>>]
NoRegex == [ok |-> FALSE]
NoFileOpen == [kind |-> "err", err |-> "NoFileOpen"]
ReaderOps == {"get_lines", "get_lines_binary", "search", "get_line_count"}
\* SharedLogFile::open and close, called directly ("open", "close") or as the
\* first step of the commands open_file and close_file.
OpenOps == {"open", "open_file"}
CloseOps == {"close", "close_file"}

\* RwLock::write is granted when nobody holds shared access (the swap is one
\* step, so no two writers overlap).
WriteGrantedAlways(rs) == TRUE
WriteGranted(rs) == rs = {}

\* SharedLogFile::open has asked for exclusive access (inner.write()): it does
\* so once LogFile::open has returned the mapped and indexed view, and waits
\* there until the readers have left.
WriteRequestedEarly(c) == req[c].op \in OpenOps /\ pc[c] \in {"called", "built"}
WriteRequested(c) == req[c].op \in OpenOps /\ pc[c] = "built"

\* RwLock::read is granted unless a writer holds the lock or waits for it
\* (parking_lot lets no new reader in once a writer has asked).
ReadGranted == \A e \in Clients : ~WriteRequested(e)

\* A command arrives.
Invoke(c, r) ==
    /\ pc[c] = "idle"
    /\ pc' = [pc EXCEPT ![c] = "called"]
    /\ req' = [req EXCEPT ![c] = r]
    /\ ret' = [ret EXCEPT ![c] = Pending]
    /\ seen' = [seen EXCEPT ![c] = None]
    /\ UNCHANGED <<fs, inner, readers, work, built, search_vars, env_vars, idx_vars, query_vars>>

\* with_file on an empty handle: the command answers "No file open".
WithFileNone(c) ==
    /\ pc[c] = "called"
    /\ req[c].op \in ReaderOps
    /\ ~inner.some
    /\ ReadGranted
    /\ seen' = [seen EXCEPT ![c] = inner]
    /\ ret' = [ret EXCEPT ![c] = NoFileOpen]
    /\ pc' = [pc EXCEPT ![c] = "idle"]
    /\ UNCHANGED <<fs, inner, readers, req, work, built, search_vars, env_vars, idx_vars, query_vars>>

\* get_line_count: with_file(|f| f.line_count())
GetLineCount(c) ==
    /\ pc[c] = "called"
    /\ req[c].op = "get_line_count"
    /\ inner.some
    /\ ReadGranted
    /\ seen' = [seen EXCEPT ![c] = inner]
    /\ ret' = [ret EXCEPT ![c] = [kind |-> "ok", n |-> line_count(inner.file)]]
    /\ pc' = [pc EXCEPT ![c] = "idle"]
    /\ UNCHANGED <<fs, inner, readers, req, work, built, search_vars, env_vars, idx_vars, query_vars>>

\* get_lines: shared access is taken, the range is clamped.
GetLinesEnter(c) ==
    /\ pc[c] = "called"
    /\ req[c].op = "get_lines"
    /\ inner.some
    /\ ReadGranted
    /\ seen' = [seen EXCEPT ![c] = inner]
    /\ readers' = readers \cup {c}
    /\ work' = [work EXCEPT ![c] =
           [n |-> IF req[c].start >= line_count(inner.file) THEN 0
                  ELSE ActualCount(req[c].count, line_count(inner.file) - req[c].start),
            lines |-> <<>>]]
    /\ pc' = [pc EXCEPT ![c] = "reading"]
    /\ UNCHANGED <<fs, inner, req, ret, built, search_vars, env_vars, idx_vars, query_vars>>

\* get_lines: one turn of the loop; indexing line_offsets past its end panics.
GetLinesStep(c) ==
    /\ pc[c] = "reading"
    /\ Len(work[c].lines) < work[c].n
    /\ LET line_idx == req[c].start + Len(work[c].lines)
       IN  IF line_idx + 1 > Len(inner.file.line_offsets)
           THEN /\ ret' = [ret EXCEPT ![c] = [kind |-> "panic"]]
                /\ pc' = [pc EXCEPT ![c] = "idle"]
                /\ readers' = readers \ {c}
                /\ work' = [work EXCEPT ![c] = NoWork]
           ELSE /\ work' = [work EXCEPT ![c].lines = Append(@, LineAt(inner.file, line_idx))]
                /\ UNCHANGED <<ret, pc, readers>>
    /\ UNCHANGED <<fs, inner, req, seen, built, search_vars, env_vars, idx_vars, query_vars>>

\* get_lines: Ok(lines); shared access is released.
GetLinesExit(c) ==
    /\ pc[c] = "reading"
    /\ Len(work[c].lines) = work[c].n
    /\ ret' = [ret EXCEPT ![c] = [kind |-> "ok", lines |-> work[c].lines]]
    /\ work' = [work EXCEPT ![c] = NoWork]
    /\ readers' = readers \ {c}
    /\ pc' = [pc EXCEPT ![c] = "idle"]
    /\ UNCHANGED <<fs, inner, req, seen, built, search_vars, env_vars, idx_vars, query_vars>>

\* get_lines_binary: shared access is taken.
BinaryEnter(c) ==
    /\ pc[c] = "called"
    /\ req[c].op = "get_lines_binary"
    /\ inner.some
    /\ ReadGranted
    /\ seen' = [seen EXCEPT ![c] = inner]
    /\ readers' = readers \cup {c}
    /\ pc' = [pc EXCEPT ![c] = "encoding"]
    /\ UNCHANGED <<fs, inner, req, ret, work, built, search_vars, env_vars, idx_vars, query_vars>>

\* get_lines_binary: the lines are extracted and encoded; access is released.
BinaryExit(c) ==
    /\ pc[c] = "encoding"
    /\ ret' = [ret EXCEPT ![c] = get_lines_binary(inner.file, req[c].start, req[c].count)]
    /\ readers' = readers \ {c}
    /\ pc' = [pc EXCEPT ![c] = "idle"]
    /\ UNCHANGED <<fs, inner, req, seen, work, built, search_vars, env_vars, idx_vars, query_vars>>

\* search on a malformed pattern: Regex::new fails inside with_file's closure
\* and the error is mapped to an io::Error, that is IndexerError::FileOpen.
SearchBadPattern(c) ==
    /\ pc[c] = "called"
    /\ req[c].op = "search"
    /\ inner.some
    /\ ReadGranted
    /\ ~RegexNew(req[c].pattern).ok
    /\ seen' = [seen EXCEPT ![c] = inner]
    /\ ret' = [ret EXCEPT ![c] = [kind |-> "err", err |-> "FileOpen"]]
    /\ pc' = [pc EXCEPT ![c] = "idle"]
    /\ UNCHANGED <<fs, inner, readers, req, work, built, search_vars, env_vars, idx_vars, query_vars>>

\* search: shared access is taken, the pattern compiled, the chunks laid out
\* and handed to the pool.
SearchEnter(c) ==
    /\ pc[c] = "called"
    /\ req[c].op = "search"
    /\ inner.some
    /\ ReadGranted
    /\ RegexNew(req[c].pattern).ok
    /\ searcher = "none"
    /\ seen' = [seen EXCEPT ![c] = inner]
    /\ readers' = readers \cup {c}
    /\ searcher' = c
    /\ regex' = RegexNew(req[c].pattern)
    /\ results' = <<>>
    /\ workers' = LET chunks == SearchChunks(line_count(inner.file), search_chunk)
                  IN  [k \in 1..Len(chunks) |->
                         [pc |-> "run", next |-> chunks[k].start, end |-> chunks[k].end, local |-> <<>>]]
    /\ pc' = [pc EXCEPT ![c] = "searching"]
    /\ UNCHANGED <<fs, inner, req, ret, work, built, search_chunk, env_vars, idx_vars, query_vars>>

\* A chunk worker at line `next`: it reads the shared result count and returns
\* (its local results with it) if the cap is reached; otherwise it tests the line.
WorkerScan(k) ==
    /\ searcher # "none"
    /\ workers[k].pc = "run"
    /\ workers[k].next < workers[k].end
    /\ workers' = [workers EXCEPT ![k] =
           IF CapReached(Len(results), req[searcher].max_results)
           THEN [@ EXCEPT !.pc = "done"]
           ELSE [@ EXCEPT !.next = @ + 1,
                          !.local = IF SearchLineMatches(inner.file, regex, workers[k].next)
                                    THEN Append(@, workers[k].next) ELSE @]]
    /\ UNCHANGED <<handle_vars, search_chunk, searcher, regex, results, env_vars, idx_vars, query_vars>>

\* A chunk worker past its last line: it extends the shared results with its
\* local ones, if it has any, under the write lock.
WorkerMerge(k) ==
    /\ searcher # "none"
    /\ workers[k].pc = "run"
    /\ workers[k].next = workers[k].end
    /\ results' = IF workers[k].local # <<>> THEN results \o workers[k].local ELSE results
    /\ workers' = [workers EXCEPT ![k].pc = "done"]
    /\ UNCHANGED <<handle_vars, search_chunk, searcher, regex, env_vars, idx_vars, query_vars>>

\* search: for_each has returned; sort, truncate, Ok(final_results).  The
\* call's locals are gone with it.
SearchExit(c) ==
    /\ pc[c] = "searching"
    /\ searcher = c
    /\ \A k \in 1..Len(workers) : workers[k].pc = "done"
    /\ ret' = [ret EXCEPT ![c] = [kind |-> "ok", hits |-> FinalResults(results, req[c].max_results)]]
    /\ readers' = readers \ {c}
    /\ searcher' = "none"
    /\ regex' = NoRegex
    /\ results' = <<>>
    /\ workers' = <<>>
    /\ pc' = [pc EXCEPT ![c] = "idle"]
    /\ UNCHANGED <<fs, inner, req, seen, work, built, search_chunk, env_vars, idx_vars, query_vars>>

\* SharedLogFile::open, LogFile::open failed: the error is returned before
\* the write lock is asked for.
OpenFail(c) ==
    /\ pc[c] = "called"
    /\ req[c].op \in OpenOps
    /\ LET r == LogFileOpen(fs, req[c].path, IndexChunkSize(Len(fs[req[c].path].bytes), num_cores, index_floor))
       IN  /\ ~r.ok
           /\ ret' = [ret EXCEPT ![c] = [kind |-> "err", err |-> r.err]]
    /\ pc' = [pc EXCEPT ![c] = "idle"]
    /\ UNCHANGED <<fs, inner, readers, req, seen, work, built, search_vars, env_vars, idx_vars, query_vars>>

\* SharedLogFile::open, LogFile::open succeeded: the view is mapped and indexed.
OpenBuild(c) ==
    /\ pc[c] = "called"
    /\ req[c].op \in OpenOps
    /\ LET r == LogFileOpen(fs, req[c].path, IndexChunkSize(Len(fs[req[c].path].bytes), num_cores, index_floor))
       IN  /\ r.ok
           /\ built' = [built EXCEPT ![c] = Some(r.file)]
    /\ pc' = [pc EXCEPT ![c] = "built"]
    /\ UNCHANGED <<fs, inner, readers, req, ret, seen, work, search_vars, env_vars, idx_vars, query_vars>>

\* SharedLogFile::open: *self.inner.write() = Some(log_file)
OpenSwap(c) ==
    /\ pc[c] = "built"
    /\ WriteGranted(readers)
    /\ inner' = built[c]
    /\ built' = [built EXCEPT ![c] = None]
    /\ ret' = IF req[c].op = "open_file" THEN ret ELSE [ret EXCEPT ![c] = [kind |-> "ok"]]
    /\ pc' = [pc EXCEPT ![c] = IF req[c].op = "open_file" THEN "swapped" ELSE "idle"]
    /\ UNCHANGED <<fs, readers, req, seen, work, search_vars, env_vars, idx_vars, query_vars>>

\* what SharedLogFile::close stores in the slot
CloseValueKept == inner
CloseValue == None

\* SharedLogFile::close: *self.inner.write() = None
Close(c) ==
    /\ pc[c] = "called"
    /\ req[c].op \in CloseOps
    /\ WriteGranted(readers)
    /\ inner' = CloseValue
    /\ ret' = IF req[c].op = "close_file" THEN ret ELSE [ret EXCEPT ![c] = [kind |-> "ok"]]
    /\ pc' = [pc EXCEPT ![c] = IF req[c].op = "close_file" THEN "closed" ELSE "idle"]
    /\ UNCHANGED <<fs, readers, req, seen, work, built, search_vars, env_vars, idx_vars, query_vars>>

\* ------------------------------------------------------------- Query Engine
\* The scalar functions register_udfs adds to a session.
CustomUdfs == {"regex_match", "json_extract"}

\* The relation names of the model; the commands use "logs" only.
TableNames == {"logs"}

NoTable == [some |-> FALSE]
SomeTable(rows) == [some |-> TRUE, rows |-> rows]

\* SessionContext::new / new_with_config: the built-in functions only (no
\* regex_match, no json_extract) and an empty catalog.
SessionContextNew == [udfs |-> {}, tables |-> [n \in TableNames |-> NoTable]]

\* QueryEngine::register_udfs
register_udfs(cx) == [cx EXCEPT !.udfs = @ \cup CustomUdfs]

\* AppState::new: QueryEngine::new(), then register_udfs
AppStateNewCtx == register_udfs(SessionContextNew)

\* QueryEngine::clear stores a fresh SessionContext::new()
ClearCtx == SessionContextNew

\* The position of the first \n of a buffer, 0 if it has none.
FirstNL(b) ==
    IF \E i \in 1..Len(b) : b[i] = NL
    THEN CHOOSE i \in 1..Len(b) : b[i] = NL /\ \A j \in 1..(i - 1) : b[j] # NL
    ELSE 0

\* BufRead::lines: each item is read up to and including the next \n; the \n
\* and a \r right before it are removed; an item that is not valid UTF-8 is
\* an Err and the iteration goes on after it.
RECURSIVE BufReadLines(_)
BufReadLines(b) ==
    IF b = <<>> THEN <<>>
    ELSE LET i    == FirstNL(b)
             raw  == IF i = 0 THEN b ELSE SubSeq(b, 1, i)
             rest == IF i = 0 THEN <<>> ELSE SubSeq(b, i + 1, Len(b))
             line == IF i = 0 THEN b
                     ELSE IF i > 1 /\ b[i - 1] = CR THEN SubSeq(b, 1, i - 2)
                     ELSE SubSeq(b, 1, i - 1)
         IN  <<IF IsUtf8(raw) THEN [ok |-> TRUE, line |-> FromUtf8Lossy(line)]
               ELSE [ok |-> FALSE]>>
             \o BufReadLines(rest)

\* line_result.unwrap_or_default()
UnwrapOrDefault(r) == IF r.ok THEN r.line ELSE <<>>

\* register_table: the rows, line_number counting from 1
LoadRows(b) ==
    LET items == BufReadLines(b)
    IN  [i \in 1..Len(items) |-> [line_number |-> i, line |-> UnwrapOrDefault(items[i])]]

\* register_table: a batch is flushed every BATCH_SIZE rows, and the last
\* partial batch after the loop.
BATCH_SIZE == 100000
Batches(rows, size) ==
    LET n == (Len(rows) + size - 1) \div size
    IN  [k \in 1..n |-> SubSeq(rows, (k - 1) * size + 1, Min(k * size, Len(rows)))]

\* MemTable::try_new(schema, vec![all_batches]): one partition, the batches in order
MemTable(b) == Concat(Batches(LoadRows(b), BATCH_SIZE))

\* std::fs::read_to_string: fails on a missing file and on bytes that are not UTF-8
ReadToString(fsys, path) ==
    IF ~fsys[path].exists \/ ~IsUtf8(fsys[path].bytes) THEN [ok |-> FALSE]
    ELSE [ok |-> TRUE, text |-> FromUtf8Lossy(fsys[path].bytes)]

\* str::lines: as BufRead::lines, on text
RECURSIVE StrLines(_)
StrLines(t) ==
    IF t = <<>> THEN <<>>
    ELSE LET i == FirstNL(t)
         IN  IF i = 0 THEN <<t>>
             ELSE <<IF i > 1 /\ t[i - 1] = CR THEN SubSeq(t, 1, i - 2) ELSE SubSeq(t, 1, i - 1)>>
                  \o StrLines(SubSeq(t, i + 1, Len(t)))

\* Iterator::take
Take(s, n) == SubSeq(s, 1, Min(n, Len(s)))

\* char::is_whitespace, its ASCII part
IsWhitespace(ch) == ch \in {9, 10, 11, 12, 13, 32}

\* str::trim
RECURSIVE TrimStart(_)
TrimStart(t) == IF t # <<>> /\ IsWhitespace(Head(t)) THEN TrimStart(Tail(t)) ELSE t
RECURSIVE TrimEnd(_)
TrimEnd(t) == IF t # <<>> /\ IsWhitespace(t[Len(t)]) THEN TrimEnd(SubSeq(t, 1, Len(t) - 1)) ELSE t
Trim(t) == TrimEnd(TrimStart(t))

\* detect_format: trimmed.starts_with('{') && trimmed.ends_with('}')
IsJsonLine(line) ==
    LET trimmed == Trim(line)
    IN  trimmed # <<>> /\ trimmed[1] = 123 /\ trimmed[Len(trimmed)] = 125

\* detect_format: line.matches(',').count()
CommaCount(line) == Cardinality({i \in 1..Len(line) : line[i] = 44})

\* detect_format: the number of leading lines it looks at
SAMPLE_LINES == 10

\* detect_format, on the file's text
DetectFormatText(text) ==
    LET first_lines == Take(StrLines(text), SAMPLE_LINES)
        json_lines  == Cardinality({i \in 1..Len(first_lines) : IsJsonLine(first_lines[i])})
    IN  IF first_lines = <<>> THEN "PlainText"
        ELSE IF json_lines > Len(first_lines) \div 2 THEN "Ndjson"
        ELSE IF /\ Len(first_lines) > 1
                /\ CommaCount(first_lines[1]) > 0
                /\ \A i \in 1..Len(first_lines) : CommaCount(first_lines[i]) = CommaCount(first_lines[1])
             THEN "Csv"
        ELSE "PlainText"

\* QueryEngine::detect_format
detect_format(fsys, path) ==
    LET r == ReadToString(fsys, path)
    IN  IF ~r.ok THEN [ok |-> FALSE, err |-> "FileOpen"]
        ELSE [ok |-> TRUE, format |-> DetectFormatText(r.text)]

\* SessionContext::register_table: the schema provider refuses a name that
\* is already registered ("The table ... already exists").
CtxRegisterTable(cx, name, rows) ==
    IF cx.tables[name].some THEN [ok |-> FALSE, ctx |-> cx]
    ELSE [ok |-> TRUE, ctx |-> [cx EXCEPT !.tables[name] = SomeTable(rows)]]

\* QueryEngine::register_table up to ctx.register_table(..)?: detect_format(path)?
\* comes first, then the file is loaded and registered.
register_table(fsys, cx, path, name) ==
    IF ~detect_format(fsys, path).ok THEN [ok |-> FALSE, ctx |-> cx]
    ELSE CtxRegisterTable(cx, name, MemTable(fsys[path].bytes))

\* A query is what its text makes the planner look up: the relation it reads
\* ("none" for a SELECT without FROM) and the scalar functions it calls.
Queries ==
    {[table |-> t, udfs |-> u] : t \in TableNames \cup {"none"}, u \in {{}, {"regex_match"}, {"json_extract"}}}

\* QueryEngine::execute_sql: ctx.sql(query) resolves the relation, then the
\* functions; the rows of a query on a relation are the relation's rows (the
\* values the functions compute are not modelled).
execute_sql(cx, q) ==
    IF q.table # "none" /\ ~cx.tables[q.table].some
    THEN [kind |-> "err", err |-> "DataFusion", detail |-> "table not found"]
    ELSE IF ~(q.udfs \subseteq cx.udfs)
    THEN [kind |-> "err", err |-> "DataFusion", detail |-> "unknown function"]
    ELSE [kind |-> "ok", rows |-> IF q.table = "none" THEN <<>> ELSE cx.tables[q.table].rows]

NoInfo == [file_size |-> 0, line_count |-> 0]
SomeName(n) == [some |-> TRUE, name |-> n]

\* open_file: with_file(|f| (f.file_size(), f.line_count())).unwrap_or((0, 0)),
\* on whatever view the handle holds by now.
FileInfoRead(c) ==
    /\ pc[c] = "swapped"
    /\ ReadGranted
    /\ finfo' = [finfo EXCEPT ![c] =
           IF inner.some
           THEN [file_size |-> inner.file.file_size, line_count |-> line_count(inner.file)]
           ELSE NoInfo]
    /\ pc' = [pc EXCEPT ![c] = "info"]
    /\ UNCHANGED <<fs, inner, readers, req, ret, seen, work, built, ctx, registered_table,
                   search_vars, env_vars, idx_vars>>

\* open_file: register_table(&path, "logs").await.ok(), under the session's
\* lock up to drop(ctx); an error ends register_table and is dropped.
RegisterTable(c) ==
    /\ pc[c] = "info"
    /\ LET r == register_table(fs, ctx, req[c].path, "logs")
       IN  /\ ctx' = r.ctx
           /\ pc' = [pc EXCEPT ![c] = IF r.ok THEN "registered" ELSE "loaded"]
    /\ UNCHANGED <<fs, inner, readers, req, ret, seen, work, built, registered_table, finfo,
                   search_vars, env_vars, idx_vars>>

\* register_table: *self.registered_table.lock().await = Some(table_name)
RegisterName(c) ==
    /\ pc[c] = "registered"
    /\ registered_table' = SomeName("logs")
    /\ pc' = [pc EXCEPT ![c] = "loaded"]
    /\ UNCHANGED <<fs, inner, readers, req, ret, seen, work, built, ctx, finfo,
                   search_vars, env_vars, idx_vars>>

\* open_file: Ok(FileInfo { path, size, line_count, format }), the format
\* being detect_format(&path).unwrap_or(PlainText)
OpenFileReturn(c) ==
    /\ pc[c] = "loaded"
    /\ ret' = [ret EXCEPT ![c] =
           [kind |-> "ok", path |-> req[c].path,
            size |-> finfo[c].file_size, line_count |-> finfo[c].line_count,
            format |-> IF detect_format(fs, req[c].path).ok
                       THEN detect_format(fs, req[c].path).format ELSE "PlainText"]]
    /\ finfo' = [finfo EXCEPT ![c] = NoInfo]
    /\ pc' = [pc EXCEPT ![c] = "idle"]
    /\ UNCHANGED <<fs, inner, readers, req, seen, work, built, ctx, registered_table,
                   search_vars, env_vars, idx_vars>>

\* close_file, QueryEngine::clear: *self.registered_table.lock().await = None
ClearName(c) ==
    /\ pc[c] = "closed"
    /\ registered_table' = None
    /\ pc' = [pc EXCEPT ![c] = "unnamed"]
    /\ UNCHANGED <<fs, inner, readers, req, ret, seen, work, built, ctx, finfo,
                   search_vars, env_vars, idx_vars>>

\* close_file, QueryEngine::clear: *self.ctx.lock().await = SessionContext::new(); Ok(())
ClearContext(c) ==
    /\ pc[c] = "unnamed"
    /\ ctx' = ClearCtx
    /\ ret' = [ret EXCEPT ![c] = [kind |-> "ok"]]
    /\ pc' = [pc EXCEPT ![c] = "idle"]
    /\ UNCHANGED <<fs, inner, readers, req, seen, work, built, registered_table, finfo,
                   search_vars, env_vars, idx_vars>>

\* the command execute_sql
ExecuteSql(c) ==
    /\ pc[c] = "called"
    /\ req[c].op = "execute_sql"
    /\ ret' = [ret EXCEPT ![c] = execute_sql(ctx, req[c].query)]
    /\ pc' = [pc EXCEPT ![c] = "idle"]
    /\ UNCHANGED <<fs, inner, readers, req, seen, work, built, query_vars,
                   search_vars, env_vars, idx_vars>>

\* QueryEngine::detect_format, called on its own
DetectFormat(c) ==
    /\ pc[c] = "called"
    /\ req[c].op = "detect_format"
    /\ ret' = [ret EXCEPT ![c] =
           LET r == detect_format(fs, req[c].path)
           IN  IF r.ok THEN [kind |-> "ok", format |-> r.format]
               ELSE [kind |-> "err", err |-> r.err]]
    /\ pc' = [pc EXCEPT ![c] = "idle"]
    /\ UNCHANGED <<fs, inner, readers, req, seen, work, built, query_vars,
                   search_vars, env_vars, idx_vars>>

\* ---------------------------------------------------------- specifications
IdxIdle ==
    /\ idx_data = <<>>
    /\ idx_chunks = <<>>
    /\ idx_results = <<>>
    /\ idx_finished = <<>>
    /\ idx_pc = "off"
    /\ global_index = <<>>

ClientsIdle ==
    /\ readers = {}
    /\ pc = [c \in Clients |-> "idle"]
    /\ req = [c \in Clients |-> [op |-> "none"]]
    /\ ret = [c \in Clients |-> Pending]
    /\ seen = [c \in Clients |-> None]
    /\ work = [c \in Clients |-> NoWork]
    /\ built = [c \in Clients |-> None]

SearchIdle ==
    /\ searcher = "none"
    /\ regex = NoRegex
    /\ results = <<>>
    /\ workers = <<>>

\* AppState::new
QueryIdle ==
    /\ ctx = AppStateNewCtx
    /\ registered_table = None
    /\ finfo = [c \in Clients |-> NoInfo]

\* The index builder alone, on every buffer, chunk size and finishing order.
SpecIndexInit ==
    /\ IndexInit
    /\ fs = [p \in Paths |-> [exists |-> FALSE, bytes |-> <<>>]]
    /\ inner = None
    /\ ClientsIdle
    /\ search_chunk = 1
    /\ SearchIdle
    /\ QueryIdle
SpecIndexNext ==
    \/ \E k \in 1..MaxLen : k <= Len(idx_chunks) /\ IndexWorker(k)
    \/ IndexReconcile
SpecIndex == SpecIndexInit /\ [][SpecIndexNext]_vars

\* One file, a.log, of every content within the bounds, opened; one client
\* calls get_lines and get_lines_binary on it with every start and count.
OneFile(buf) ==
    [p \in Paths |-> IF p = "a.log" THEN [exists |-> TRUE, bytes |-> buf]
                     ELSE [exists |-> FALSE, bytes |-> <<>>]]

OpenedInit ==
    /\ num_cores = MaxCores
    /\ index_floor = 1
    /\ IdxIdle
    /\ \E buf \in Buffers : fs = OneFile(buf)
    /\ inner = Some(LogFileOpen(fs, "a.log", IndexChunkSize(Len(fs["a.log"].bytes), num_cores, index_floor)).file)
    /\ ClientsIdle
    /\ SearchIdle
    /\ QueryIdle

\* The get_lines and get_lines_binary calls the client may make.
LineRequests ==
    {[op |-> o, start |-> start, count |-> count] :
        o \in {"get_lines", "get_lines_binary"}, start \in 0..MaxStart, count \in 0..MaxCount}

Init ==
    /\ OpenedInit
    /\ search_chunk = 1
Next ==
    \/ \E r \in LineRequests : Invoke("c1", r)
    \/ GetLinesEnter("c1")
    \/ GetLinesStep("c1")
    \/ GetLinesExit("c1")
    \/ BinaryEnter("c1")
    \/ BinaryExit("c1")
Spec == Init /\ [][Next]_vars

\* One opened file of every content within the bounds; one client searches it
\* with every pattern and cap, the chunk workers running in every interleaving.
\* The search calls the client may make.
SearchRequests ==
    {[op |-> "search", pattern |-> p, max_results |-> m] : p \in Patterns, m \in 0..MaxResults}

SpecSearchInit ==
    /\ OpenedInit
    /\ search_chunk \in 1..MaxSearchChunk
SpecSearchNext ==
    \/ \E r \in SearchRequests : Invoke("c1", r)
    \/ SearchBadPattern("c1")
    \/ SearchEnter("c1")
    \/ \E k \in 1..MaxLen : k <= Len(workers) /\ WorkerScan(k)
    \/ \E k \in 1..MaxLen : k <= Len(workers) /\ WorkerMerge(k)
    \/ SearchExit("c1")
SpecSearch == SpecSearchInit /\ [][SpecSearchNext]_vars

\* The shared handle under concurrent commands: a.log holds "a\na", b.log
\* "\r\n\na", empty.log nothing and missing.log does not exist.  Every client
\* issues every command; readers hold shared access over several steps while
\* open and close wait for exclusive access.
SharedFiles ==
    [p \in Paths |->
        IF p = "a.log" THEN [exists |-> TRUE, bytes |-> <<97, NL, 97>>]
        ELSE IF p = "b.log" THEN [exists |-> TRUE, bytes |-> <<CR, NL, NL, 97>>]
        ELSE IF p = "empty.log" THEN [exists |-> TRUE, bytes |-> <<>>]
        ELSE [exists |-> FALSE, bytes |-> <<>>]]

SharedRequests ==
    {[op |-> "open", path |-> p] : p \in Paths}
    \cup {[op |-> "close"], [op |-> "get_line_count"]}
    \cup {[op |-> "get_lines", start |-> 0, count |-> 2]}
    \cup {[op |-> "get_lines_binary", start |-> 0, count |-> 2]}
    \cup {[op |-> "search", pattern |-> p, max_results |-> 1] : p \in {<<97>>, <<40>>}}

SpecSharedInit ==
    /\ num_cores = MaxCores
    /\ index_floor = 1
    /\ IdxIdle
    /\ fs = SharedFiles
    /\ inner = None
    /\ ClientsIdle
    /\ search_chunk = 1
    /\ SearchIdle
    /\ QueryIdle
SpecSharedNext ==
    \/ \E c \in Clients, r \in SharedRequests : Invoke(c, r)
    \/ \E c \in Clients : WithFileNone(c)
    \/ \E c \in Clients : GetLineCount(c)
    \/ \E c \in Clients : GetLinesEnter(c)
    \/ \E c \in Clients : GetLinesStep(c)
    \/ \E c \in Clients : GetLinesExit(c)
    \/ \E c \in Clients : BinaryEnter(c)
    \/ \E c \in Clients : BinaryExit(c)
    \/ \E c \in Clients : SearchBadPattern(c)
    \/ \E c \in Clients : SearchEnter(c)
    \/ \E k \in 1..MaxLen : k <= Len(workers) /\ WorkerScan(k)
    \/ \E k \in 1..MaxLen : k <= Len(workers) /\ WorkerMerge(k)
    \/ \E c \in Clients : SearchExit(c)
    \/ \E c \in Clients : OpenFail(c)
    \/ \E c \in Clients : OpenBuild(c)
    \/ \E c \in Clients : OpenSwap(c)
    \/ \E c \in Clients : Close(c)
SpecShared == SpecSharedInit /\ [][SpecSharedNext]_vars

\* The query engine behind the commands: a.log of every content within the
\* bounds (undecodable bytes included), b.log "\r\n\na"; one client issues
\* open_file, close_file and execute_sql in every order.
QueryFiles(buf) ==
    [p \in Paths |-> IF p = "a.log" THEN [exists |-> TRUE, bytes |-> buf] ELSE SharedFiles[p]]

QueryRequests ==
    {[op |-> "open_file", path |-> p] : p \in Paths}
    \cup {[op |-> "close_file"]}
    \cup {[op |-> "execute_sql", query |-> q] : q \in Queries}

SpecQueryInit ==
    /\ num_cores = MaxCores
    /\ index_floor = 1
    /\ IdxIdle
    /\ \E buf \in Buffers : fs = QueryFiles(buf)
    /\ inner = None
    /\ ClientsIdle
    /\ search_chunk = 1
    /\ SearchIdle
    /\ QueryIdle
SpecQueryNext ==
    \/ \E r \in QueryRequests : Invoke("c1", r)
    \/ OpenFail("c1")
    \/ OpenBuild("c1")
    \/ OpenSwap("c1")
    \/ FileInfoRead("c1")
    \/ RegisterTable("c1")
    \/ RegisterName("c1")
    \/ OpenFileReturn("c1")
    \/ Close("c1")
    \/ ClearName("c1")
    \/ ClearContext("c1")
    \/ ExecuteSql("c1")
SpecQuery == SpecQueryInit /\ [][SpecQueryNext]_vars

\* The commands open_file and close_file issued concurrently by every client
\* on the files of SharedFiles, each command a sequence of separate steps.
AppRequests ==
    {[op |-> "open_file", path |-> p] : p \in Paths} \cup {[op |-> "close_file"]}

SpecAppInit ==
    /\ num_cores = MaxCores
    /\ index_floor = 1
    /\ IdxIdle
    /\ fs = SharedFiles
    /\ inner = None
    /\ ClientsIdle
    /\ search_chunk = 1
    /\ SearchIdle
    /\ QueryIdle
SpecAppNext ==
    \/ \E c \in Clients, r \in AppRequests : Invoke(c, r)
    \/ \E c \in Clients : OpenFail(c)
    \/ \E c \in Clients : OpenBuild(c)
    \/ \E c \in Clients : OpenSwap(c)
    \/ \E c \in Clients : FileInfoRead(c)
    \/ \E c \in Clients : RegisterTable(c)
    \/ \E c \in Clients : RegisterName(c)
    \/ \E c \in Clients : OpenFileReturn(c)
    \/ \E c \in Clients : Close(c)
    \/ \E c \in Clients : ClearName(c)
    \/ \E c \in Clients : ClearContext(c)
SpecApp == SpecAppInit /\ [][SpecAppNext]_vars

\* detect_format on every text of at most MaxDocLen characters over
\* DetectAlphabet ('\n', ' ', ',', 'a', '{', '}'), on texts of more than
\* SAMPLE_LINES lines, and on a missing file.
DetectAlphabet == {NL, 32, 44, 97, 123, 125}
DetectLines == {<<>>, <<44>>, <<97>>, <<123, 125>>}
Repeat(line, n) == Concat([i \in 1..n |-> line \o <<NL>>])
LongDocs == {Repeat(x, SAMPLE_LINES) \o y : x \in DetectLines, y \in DetectLines}
DetectDocs == SeqsUpTo(DetectAlphabet, MaxDocLen) \cup LongDocs

DetectRequests == {[op |-> "detect_format", path |-> p] : p \in {"a.log", "missing.log"}}

SpecDetectInit ==
    /\ num_cores = MaxCores
    /\ index_floor = 1
    /\ IdxIdle
    /\ \E doc \in DetectDocs : fs = OneFile(doc)
    /\ inner = None
    /\ ClientsIdle
    /\ search_chunk = 1
    /\ SearchIdle
    /\ QueryIdle
SpecDetectNext ==
    \/ \E r \in DetectRequests : Invoke("c1", r)
    \/ DetectFormat("c1")
SpecDetect == SpecDetectInit /\ [][SpecDetectNext]_vars

\* ------------------------------------------------------------------ claims
\* What a command of client c returned, once it has returned.
Returned(c, op) == pc[c] = "idle" /\ req[c].op = op /\ ret[c] # Pending

\* The number of newline bytes of a buffer.
NewlineCount(d) == Cardinality({i \in 1..Len(d) : d[i] = NL})

\* C2: for every non-empty buffer, chunk size and finishing order of the
\* workers, build_index returns one and the same sequence (that of a single
\* chunk): strictly increasing, first element 0, every other element the
\* position right after a newline byte and below the buffer length; so the
\* line count is the number of newlines, plus one when the last byte is not
\* a newline.
C2_IndexIsLineStarts ==
    idx_pc = "done" =>
        /\ global_index = BuildIndexWith(idx_data, Len(idx_data))
        /\ global_index[1] = 0
        /\ \A i \in 1..(Len(global_index) - 1) : global_index[i] < global_index[i + 1]
        /\ \A i \in 2..Len(global_index) :
              /\ global_index[i] < Len(idx_data)
              /\ idx_data[global_index[i]] = NL
        /\ Len(global_index) = NewlineCount(idx_data)
                               + (IF idx_data[Len(idx_data)] # NL THEN 1 ELSE 0)

\* C2's case: several chunks, the first chunk's worker not the first to
\* finish, three lines or more and a final newline.
C2_Witness ==
    /\ idx_pc = "done"
    /\ Len(idx_chunks) >= 2
    /\ idx_finished[1] # 1
    /\ Len(global_index) >= 3
    /\ idx_data[Len(idx_data)] = NL

\* The text the specification gives line i of view f: the bytes from its
\* offset to the next line's offset (to the end of the buffer for the last
\* line), without the trailing \n and without a \r right before that \n.
LineBytes(f, i) ==
    SubSeq(f.mmap, f.line_offsets[i + 1] + 1,
           IF i + 1 < Len(f.line_offsets) THEN f.line_offsets[i + 2] ELSE Len(f.mmap))
StripTerminator(b) ==
    IF Len(b) >= 1 /\ b[Len(b)] = NL
    THEN IF Len(b) >= 2 /\ b[Len(b) - 1] = CR THEN SubSeq(b, 1, Len(b) - 2)
         ELSE SubSeq(b, 1, Len(b) - 1)
    ELSE b
SpecLineText(f, i) == FromUtf8Lossy(StripTerminator(LineBytes(f, i)))

\* C1: every string get_lines returns is the line's bytes without its
\* terminator, the last line of a file that ends in a newline included.
C1_LinesExcludeTerminator ==
    \A c \in Clients :
        (Returned(c, "get_lines") /\ ret[c].kind = "ok") =>
            \A k \in 1..Len(ret[c].lines) :
                ret[c].lines[k] = SpecLineText(seen[c].file, req[c].start + k - 1)

\* C3: get_lines(start, count) on a file of N lines succeeds and returns
\* max(0, min(count, N - start)) strings, the k-th being line start + k.
C3_GetLinesClamps ==
    \A c \in Clients :
        Returned(c, "get_lines") =>
            LET N == line_count(seen[c].file)
                start == req[c].start
            IN  /\ ret[c].kind = "ok"
                /\ Len(ret[c].lines) = (IF start >= N THEN 0 ELSE Min(req[c].count, N - start))
                /\ \A k \in 1..Len(ret[c].lines) :
                      <<ret[c].lines[k]>> = get_lines(seen[c].file, start + k - 1, 1).lines

\* C3's case: a range that reaches past the last line was clamped, and a
\* start at or past the line count gave the empty list.
C3_Witness ==
    /\ Returned("c1", "get_lines")
    /\ line_count(seen["c1"].file) >= 2
    /\ req["c1"].start >= 1
    /\ req["c1"].start < line_count(seen["c1"].file)
    /\ req["c1"].start + req["c1"].count > line_count(seen["c1"].file)
    /\ Len(ret["c1"].lines) = line_count(seen["c1"].file) - req["c1"].start

\* u32::from_le_bytes
FromU32Le(b) == b[1] + 256 * b[2] + 65536 * b[3] + 16777216 * b[4]

\* UTF-8 bytes back to code points: an ASCII byte is itself, EF BF BD is
\* U+FFFD, any other byte is taken for one U+FFFD.
RECURSIVE Utf8Decode(_)
Utf8Decode(b) ==
    IF b = <<>> THEN <<>>
    ELSE IF b[1] < 128 THEN <<b[1]>> \o Utf8Decode(Tail(b))
    ELSE IF Len(b) >= 3 /\ SubSeq(b, 1, 3) = <<239, 191, 189>>
         THEN <<REPLACEMENT>> \o Utf8Decode(SubSeq(b, 4, Len(b)))
    ELSE <<REPLACEMENT>> \o Utf8Decode(Tail(b))

RECURSIVE Sum(_)
Sum(s) == IF s = <<>> THEN 0 ELSE Head(s) + Sum(Tail(s))

\* A consumer's reading of the transfer layout: the line count, that many
\* lengths, then the lines' bytes back to back and nothing after them.
DecodeBinary(b) ==
    IF Len(b) < 4 THEN [ok |-> FALSE, lines |-> <<>>]
    ELSE LET n == FromU32Le(SubSeq(b, 1, 4))
         IN  IF Len(b) < 4 + 4 * n THEN [ok |-> FALSE, lines |-> <<>>]
             ELSE LET lens == [i \in 1..n |-> FromU32Le(SubSeq(b, 4 * i + 1, 4 * i + 4))]
                      from(i) == 4 + 4 * n + Sum(SubSeq(lens, 1, i - 1))
                  IN  IF Len(b) # 4 + 4 * n + Sum(lens) THEN [ok |-> FALSE, lines |-> <<>>]
                      ELSE [ok |-> TRUE,
                            lines |-> [i \in 1..n |-> Utf8Decode(SubSeq(b, from(i) + 1, from(i) + lens[i]))]]

\* C4: get_lines_binary(start, count) is the u32 line count, the u32 byte
\* lengths and the lines' bytes, and decodes to exactly the strings that
\* get_lines(start, count) returns.
C4_BinaryRoundTrip ==
    \A c \in Clients :
        Returned(c, "get_lines_binary") =>
            /\ ret[c].kind = "ok"
            /\ DecodeBinary(ret[c].bytes).ok
            /\ DecodeBinary(ret[c].bytes).lines
                   = get_lines(seen[c].file, req[c].start, req[c].count).lines

\* C4's case: two lines or more were encoded, one of them holding a byte
\* that lossy decoding replaced (its text is longer than its raw bytes).
C4_Witness ==
    /\ Returned("c1", "get_lines_binary")
    /\ ret["c1"].kind = "ok"
    /\ LET lines == DecodeBinary(ret["c1"].bytes).lines
       IN  /\ Len(lines) >= 2
           /\ \E i \in 1..Len(lines) : \E j \in 1..Len(lines[i]) : lines[i][j] = REPLACEMENT

\* C5: the list search returns is strictly ascending, no longer than
\* max_results, and holds only line indices of the file, in every
\* interleaving of the chunk workers.
C5_SearchAscendingCapped ==
    \A c \in Clients :
        (Returned(c, "search") /\ ret[c].kind = "ok") =>
            LET hits == ret[c].hits
            IN  /\ Len(hits) <= req[c].max_results
                /\ \A i \in 1..(Len(hits) - 1) : hits[i] < hits[i + 1]
                /\ \A i \in 1..Len(hits) : hits[i] < line_count(seen[c].file)

\* C5's case: a file of several chunks in which more lines match than
\* max_results allows; the result was cut to the cap.
C5_Witness ==
    /\ Returned("c1", "search")
    /\ ret["c1"].kind = "ok"
    /\ line_count(seen["c1"].file) > search_chunk
    /\ req["c1"].max_results >= 1
    /\ Cardinality({n \in 0..(line_count(seen["c1"].file) - 1) :
                      SearchLineMatches(seen["c1"].file, RegexNew(req["c1"].pattern), n)})
           > req["c1"].max_results
    /\ Len(ret["c1"].hits) = req["c1"].max_results

\* C6: every line number search returns denotes a line whose text, as
\* get_lines(n, 1) returns it, matches the pattern.
C6_HitsMatchLineText ==
    \A c \in Clients :
        (Returned(c, "search") /\ ret[c].kind = "ok") =>
            \A i \in 1..Len(ret[c].hits) :
                IsMatch(RegexNew(req[c].pattern),
                        get_lines(seen[c].file, ret[c].hits[i], 1).lines[1])

\* The lines of view f that pass search's test: the line's bytes up to the
\* next line are valid UTF-8 and the pattern matches them.
MatchingLines(f, p) ==
    {n \in 0..(line_count(f) - 1) :
        IsUtf8(LineBytes(f, n)) /\ IsMatch(RegexNew(p), LineBytes(f, n))}

RangeOf(s) == {s[i] : i \in 1..Len(s)}

\* C7: when at most max_results lines match, search returns all of them:
\* none is lost to the early exit, in every interleaving of the workers.
C7_NoMatchLostUnderCap ==
    \A c \in Clients :
        (/\ Returned(c, "search")
         /\ ret[c].kind = "ok"
         /\ Cardinality(MatchingLines(seen[c].file, req[c].pattern)) <= req[c].max_results) =>
            RangeOf(ret[c].hits) = MatchingLines(seen[c].file, req[c].pattern)

\* C7's case: "a\n\na" searched for "a" with a cap of 2 in two chunks or
\* more gives [0, 2], as many matches as the cap allows.
C7_Witness ==
    /\ Returned("c1", "search")
    /\ fs["a.log"].bytes = <<97, NL, NL, 97>>
    /\ req["c1"].pattern = <<97>>
    /\ req["c1"].max_results = 2
    /\ search_chunk = 1
    /\ ret["c1"] = [kind |-> "ok", hits |-> <<0, 2>>]

\* The view LogFile::open gives path p: the file's bytes, their size and the
\* line starts (0 and the position after every newline that is not the last byte).
IsViewOf(f, p) ==
    /\ f.path = p
    /\ f.mmap = fs[p].bytes
    /\ f.file_size = Len(fs[p].bytes)
    /\ \A o \in 0..Len(f.mmap) :
          (\E i \in 1..Len(f.line_offsets) : f.line_offsets[i] = o)
              <=> (o = 0 \/ (o >= 1 /\ o < Len(f.mmap) /\ f.mmap[o] = NL))

\* C8: opening a zero-byte file fails with EmptyFile, a missing one with
\* FileOpen, and an open that fails leaves the handle's view as it was.
C8_FailedOpenKeepsView ==
    [][\A c \in Clients :
          (pc[c] = "called" /\ req[c].op = "open" /\ pc'[c] # "called") =>
              IF fs[req[c].path].exists /\ Len(fs[req[c].path].bytes) = 0
              THEN /\ pc'[c] = "idle"
                   /\ ret'[c] = [kind |-> "err", err |-> "EmptyFile"]
                   /\ inner' = inner
              ELSE IF ~fs[req[c].path].exists
              THEN /\ pc'[c] = "idle"
                   /\ ret'[c] = [kind |-> "err", err |-> "FileOpen"]
                   /\ inner' = inner
              ELSE pc'[c] = "built"]_vars

\* C8's case: a.log is open, an open of the zero-byte file has failed with
\* EmptyFile and a.log's view is still in the handle.
C8_Witness ==
    \E c \in Clients :
        /\ Returned(c, "open")
        /\ req[c].path = "empty.log"
        /\ ret[c] = [kind |-> "err", err |-> "EmptyFile"]
        /\ inner.some
        /\ inner.file.path = "a.log"

\* C9: the handle holds the view of the last successful open, or none after
\* a close: a successful open(p) stores the view of p, a close empties the
\* handle, nothing else changes it, with_file hands out what the handle
\* holds, and get_lines, get_lines_binary, search and get_line_count answer
\* "No file open" exactly when it handed out nothing.
C9_SingleCurrentView ==
    [][/\ \A c \in Clients :
             /\ (pc[c] = "built" /\ pc'[c] = "idle") =>
                    /\ ret'[c] = [kind |-> "ok"]
                    /\ inner'.some
                    /\ IsViewOf(inner'.file, req[c].path)
             /\ (pc[c] = "called" /\ req[c].op = "close" /\ pc'[c] = "idle") =>
                    /\ ret'[c] = [kind |-> "ok"]
                    /\ inner' = None
             /\ (pc[c] = "called" /\ req[c].op \in ReaderOps /\ pc'[c] # "called") =>
                    /\ seen'[c] = inner
                    /\ (pc'[c] = "idle" /\ ret'[c] = [kind |-> "err", err |-> "NoFileOpen"])
                           <=> ~inner.some
       /\ inner' # inner =>
              \E c \in Clients :
                  \/ pc[c] = "built" /\ pc'[c] = "idle"
                  \/ pc[c] = "called" /\ req[c].op = "close" /\ pc'[c] = "idle"]_vars

\* C9's case: after opens of a.log and b.log and a close, the handle is
\* empty, one client's close has returned and another's get_lines has
\* answered "No file open", while a third's get_line_count once answered 3,
\* b.log's line count.
C9_Witness ==
    \E c, d, e \in Clients :
        /\ ~inner.some
        /\ Returned(c, "close")
        /\ Returned(d, "get_lines")
        /\ ret[d] = NoFileOpen
        /\ Returned(e, "get_line_count")
        /\ ret[e] = [kind |-> "ok", n |-> 3]

\* C10: a reader works on the one view with_file handed it: while a client
\* holds shared access the handle still holds that view (open and close take
\* effect only when no reader is left), so what get_lines, get_lines_binary
\* and search return is what they yield on that view, never an error and
\* never data of a file opened meanwhile.
C10_ReadersKeepTheirView ==
    \A c \in Clients :
        /\ c \in readers => (seen[c].some /\ inner = seen[c])
        /\ (Returned(c, "get_lines") /\ seen[c].some) =>
               ret[c] = get_lines(seen[c].file, req[c].start, req[c].count)
        /\ (Returned(c, "get_lines_binary") /\ seen[c].some) =>
               ret[c] = get_lines_binary(seen[c].file, req[c].start, req[c].count)
        /\ (Returned(c, "search") /\ seen[c].some /\ RegexNew(req[c].pattern).ok) =>
               /\ ret[c].kind = "ok"
               /\ RangeOf(ret[c].hits) \subseteq MatchingLines(seen[c].file, req[c].pattern)

\* C10's case: a get_lines has read one of a.log's two lines, a search runs
\* on the same view, and an open that has built b.log's view waits for them.
C10_Witness ==
    \E c, d, e \in Clients :
        /\ pc[c] = "reading"
        /\ Len(work[c].lines) = 1
        /\ pc[d] = "searching"
        /\ pc[e] = "built"
        /\ inner.file.path = "a.log"
        /\ built[e].file.path = "b.log"
        /\ ~WriteGranted(readers)

\* C11: after any sequence of open_file and close_file commands, the scalar
\* functions regex_match and json_extract are registered in the session that
\* execute_sql runs against, so no query fails for an unknown function of
\* these two.
C11_UdfsAlwaysRegistered ==
    /\ CustomUdfs \subseteq ctx.udfs
    /\ \A c \in Clients :
           Returned(c, "execute_sql") /\ ret[c].kind = "err" => ret[c].detail # "unknown function"

\* C12: register_table(path, name) overwrites a prior registration of the
\* same name: when open_file(B) registers "logs" while "logs" is registered
\* (an earlier open_file(A), no close_file in between) and B is readable text,
\* the relation "logs" holds the lines of B from then on.
C12_RegisterOverwrites ==
    [][\A c \in Clients :
          (/\ pc[c] = "info" /\ pc'[c] # "info"
           /\ ctx.tables["logs"].some
           /\ detect_format(fs, req[c].path).ok)
          => ctx'.tables["logs"] = SomeTable(MemTable(fs[req[c].path].bytes))]_vars

\* The error kinds that stand for a failure to open or read a file.
IoErrorKinds == {"FileOpen"}

\* C13: a malformed regular expression passed to search is reported as an
\* invalid-pattern error, distinguishable from the file-open / I/O error
\* kind, and no result list is returned.
C13_BadPatternIsDistinctError ==
    \A c \in Clients :
        Returned(c, "search") /\ inner.some /\ ~RegexNew(req[c].pattern).ok
        => ret[c].kind = "err" /\ ret[c].err \notin IoErrorKinds \cup {"NoFileOpen"}

\* C14: register_table on a file that contains lines which do not decode as
\* text does not abort: it registers a relation with one row per line,
\* line_number running 1..N in file order, and the empty string in place of
\* each undecodable line.  (Stated for a name that is not registered yet.)
C14_UndecodableLinesLoadAsEmpty ==
    [][\A c \in Clients :
          LET items == BufReadLines(fs[req[c].path].bytes)
          IN  (/\ pc[c] = "info" /\ pc'[c] # "info"
               /\ ~ctx.tables["logs"].some
               /\ fs[req[c].path].exists
               /\ \E i \in 1..Len(items) : ~items[i].ok)
              => LET t == ctx'.tables["logs"]
                 IN  /\ t.some
                     /\ Len(t.rows) = Len(items)
                     /\ \A i \in 1..Len(items) :
                            /\ t.rows[i].line_number = i
                            /\ t.rows[i].line = IF items[i].ok THEN items[i].line ELSE <<>>]_vars

\* The classification C15 states: the sample is the first SAMPLE_LINES
\* non-empty lines.
ClaimedFormat(text) ==
    LET sample == Take(SelectSeq(StrLines(text), LAMBDA l : l # <<>>), SAMPLE_LINES)
        json   == Cardinality({i \in 1..Len(sample) : IsJsonLine(sample[i])})
    IN  IF 2 * json > Len(sample) THEN "Ndjson"
        ELSE IF /\ Len(sample) > 1
                /\ CommaCount(sample[1]) > 0
                /\ \A i \in 1..Len(sample) : CommaCount(sample[i]) = CommaCount(sample[1])
             THEN "Csv"
        ELSE "PlainText"

\* C15: detect_format classifies from a sample of up to the first 10
\* non-empty lines: NDJSON when more than half of the sampled lines, trimmed,
\* start with '{' and end with '}'; otherwise CSV when there is more than one
\* sampled line and all sampled lines have the same non-zero number of
\* commas; otherwise PlainText.
C15_DetectFormatClassifies ==
    \A c \in Clients :
        Returned(c, "detect_format") /\ fs[req[c].path].exists
        => ret[c] = [kind |-> "ok", format |-> ClaimedFormat(FromUtf8Lossy(fs[req[c].path].bytes))]

\* C16: search is deterministic: two searches of the same view with the same
\* pattern and max_results return the same list, whatever the order in which
\* the chunk workers ran, checked the shared result count and merged.
C16_SearchDeterministic ==
    \A c, d \in Clients :
        (/\ Returned(c, "search") /\ Returned(d, "search")
         /\ req[c] = req[d]
         /\ seen[c].some /\ seen[c] = seen[d])
        => ret[c] = ret[d]

\* a reader command that has been issued and not yet asked for shared access
ReaderWaiting(c) == pc[c] = "called" /\ req[c].op \in ReaderOps

\* an open whose LogFile::open (mapping and indexing) has not returned yet
OpenIndexing(e) == pc[e] = "called" /\ req[e].op \in OpenOps

\* C17: SharedLogFile::open takes exclusive access only for the swap: the
\* write lock is first requested when the view of the new file is fully built,
\* and while a file is being mapped and indexed (and no other open waits for
\* the lock) no write lock is held, so a reader of the previously opened view
\* can take shared access, and every reader holding it can go on to completion.
C17_WriteLockOnlyForSwap ==
    /\ \A e \in Clients :
           WriteRequested(e) =>
               /\ built[e].some
               /\ IsViewOf(built[e].file, req[e].path)
    /\ ((\E e \in Clients : OpenIndexing(e))
        /\ (\A e \in Clients : pc[e] # "built")
        /\ inner.some) =>
           \A c \in Clients :
               /\ (ReaderWaiting(c) /\ req[c].op = "get_line_count") =>
                      ENABLED GetLineCount(c)
               /\ (ReaderWaiting(c) /\ req[c].op = "get_lines") =>
                      ENABLED GetLinesEnter(c)
               /\ (ReaderWaiting(c) /\ req[c].op = "get_lines_binary") =>
                      ENABLED BinaryEnter(c)
               /\ (ReaderWaiting(c) /\ req[c].op = "search" /\ searcher = "none") =>
                      ENABLED (SearchBadPattern(c) \/ SearchEnter(c))
    /\ \A c \in Clients :
           /\ pc[c] = "reading" => ENABLED (GetLinesStep(c) \/ GetLinesExit(c))
           /\ pc[c] = "encoding" => ENABLED BinaryExit(c)
           /\ pc[c] = "searching" =>
                  ENABLED (\/ SearchExit(c)
                           \/ \E k \in 1..MaxLen : k <= Len(workers) /\ WorkerScan(k)
                           \/ \E k \in 1..MaxLen : k <= Len(workers) /\ WorkerMerge(k))

\* C17's case: a.log is open and b.log is being mapped and indexed by an open
\* that has not asked for the lock; one get_lines holds shared access and has
\* read a line of a.log, and a get_lines_binary issued meanwhile can take it.
C17_Witness ==
    \E c, d, e \in Clients :
        /\ OpenIndexing(e)
        /\ req[e].path = "b.log"
        /\ ~WriteRequested(e)
        /\ inner.some
        /\ inner.file.path = "a.log"
        /\ pc[c] = "reading"
        /\ Len(work[c].lines) = 1
        /\ ReaderWaiting(d)
        /\ req[d].op = "get_lines_binary"
        /\ ENABLED BinaryEnter(d)

\* the indexed view and the "logs" relation were both built from path p
BothBuiltFrom(p) ==
    /\ inner.some
    /\ IsViewOf(inner.file, p)
    /\ ctx.tables["logs"] = SomeTable(MemTable(fs[p].bytes))

\* C18: for every interleaving of concurrently issued open_file and close_file
\* commands, once all of them have returned the indexed view and the "logs"
\* relation agree (the handle is empty and no "logs" relation is registered,
\* or both were built from the same path), and the size and line_count that
\* a successful open_file(p) returned are those of the file at p.
C18_ViewAndRelationAgree ==
    (\A c \in Clients : pc[c] = "idle") =>
        /\ \/ ~inner.some /\ ~ctx.tables["logs"].some
           \/ \E p \in Paths : BothBuiltFrom(p)
        /\ \A c \in Clients :
               (Returned(c, "open_file") /\ ret[c].kind = "ok") =>
                   LET r == LogFileOpen(fs, req[c].path,
                                IndexChunkSize(Len(fs[req[c].path].bytes), num_cores, index_floor))
                   IN  /\ ret[c].size = Len(fs[req[c].path].bytes)
                       /\ ret[c].line_count = line_count(r.file)

=============================================================================
